---------------------------- MODULE Spec2Model ----------------------------
(***************************************************************************)
(* State-machine model of the chat store hook (useChatsDb: loadChats,      *)
(* createChat, sendMessage, updateMessageStatus) and of the schema         *)
(* initialisation (initializeDatabase).                                    *)
(*                                                                         *)
(* Every `await db...` of the source is one step: the statement executes   *)
(* against the store atomically, and the synchronous code that follows it  *)
(* up to the next statement runs with it.  The code after the LAST         *)
(* statement of a call touches the shared React state (setUserChats), so   *)
(* it is a step of its own: other calls may run between the moment the     *)
(* store executed the statement and the moment the continuation resumes.   *)
(***************************************************************************)
EXTENDS Integers, Sequences, FiniteSets, TLC

\* ------------------------------------------------------------------ bounds

\* Date.now() ranges over 1..MaxClock.  Chat ids and message ids are derived
\* from Date.now() and are primary keys, so MaxClock also bounds the number
\* of chats and of messages.
MaxClock == 2

\* The number of async calls of the hook (loadChats, createChat, sendMessage,
\* updateMessageStatus) a behaviour makes.
MaxCalls == 2

\* ------------------------------------------------------------------ inputs

Users == {"A", "B", "C"}

\* null / undefined user id (falsy in the source's tests)
NoUser == "none"

\* The users who log in, and the senderId arguments of sendMessage.
LoginUsers == {"A", "B"}
Senders == {"A"}

\* Slots for the async calls of the hook that run concurrently.
Procs == {"p1", "p2"}

\* chatId arguments of sendMessage and updateMessageStatus
ChatInputs == {1, 2}

\* Message texts: one that survives trim() and one that is blank.
Texts == {"hi", " "}

\* participantIds arguments of createChat: below the minimum, a pair, a pair
\* without "A", and one with a duplicate id.
ParticipantInputs ==
    { <<"A">>, <<"A", "B">>, <<"B", "C">>, <<"A", "B", "B">> }

Statuses == {"sent", "delivered", "read"}

\* The order sent < delivered < read of the message lifecycle.
Rank(s) == CASE s = "sent" -> 0 [] s = "delivered" -> 1 [] s = "read" -> 2

\* ----------------------------------------------------------------- helpers

Range(s) == { s[i] : i \in 1..Len(s) }

\* Array.prototype.includes
Includes(s, x) == x \in Range(s)

\* Number of occurrences of x in the list s.
Count(s, x) == Cardinality({ i \in 1..Len(s) : s[i] = x })

\* MapUserId that keeps the first row only
MapUserIdFirst(rows) == IF rows = <<>> THEN <<>> ELSE << rows[1].userId >>

\* rows.map(row => row.userId), rows.map(row => row.chatId)
MapUserId(rows) == [ i \in 1..Len(rows) |-> rows[i].userId ]
MapChatId(rows) == [ i \in 1..Len(rows) |-> rows[i].chatId ]

\* String.prototype.trim on the modelled texts
Trim(t) == IF t = " " THEN "" ELSE t

\* A readBy value as the store holds it.  JSON.stringify(list) is the JSON
\* text of the list; sendMessage wraps that text in a one-element array.
\* The store hands back the value it was given.
JSONStringify(list) == [wrapped |-> FALSE, json |-> list]
WrapInArray(str) == [wrapped |-> TRUE, json |-> str.json]
\* Array.prototype.toString of a one-element array is that element; of a
\* string, the string.
JsToString(v) == [wrapped |-> FALSE, json |-> v.json]
\* JSON.parse of a JSON text
JSONParse(str) == str.json

\* the parsed readBy list of a stored row
ParsedReadBy(row) == JSONParse(JsToString(row.readBy))


\* ------------------------------------------------------------------- state

VARIABLES
    clock,        \* the last value Date.now() returned
    currentUser,  \* currentUserId of the hook (NoUser when null)
    chatsTbl,     \* table chats: the set of chat ids (primary key id)
    partTbl,      \* table chat_participants: rows in insertion order
    msgTbl,       \* table messages: rows in insertion order
    userChats,    \* React state userChats: Chat[]
    loading,      \* React state loading
    procs,        \* the async calls in flight or finished, one per slot
    calls,        \* history: the number of calls made so far
    maxReached,   \* history: per message id, the highest status rank ever persisted
    tables,       \* schema: the tables that exist
    msgCols,      \* schema: the columns of table messages, in order
    legacyRows,   \* rows of table messages during migration: column -> value
    initPc,       \* position of initializeDatabase
    pragma,       \* messagesColumns: the PRAGMA table_info snapshot
    initCol       \* index in AddedCols of the column the next ALTER adds (0: none)

storeVars == <<chatsTbl, partTbl, msgTbl>>
histVars == <<calls, maxReached>>
schemaVars == <<tables, msgCols, legacyRows, initPc, pragma, initCol>>
vars == <<clock, currentUser, chatsTbl, partTbl, msgTbl, userChats, loading,
          procs, calls, maxReached, tables, msgCols, legacyRows, initPc, pragma, initCol>>

\* ids are numbers taken from the clock; 0 stands for "no id"
Ids == 1..MaxClock

\* A call slot.  Arguments: chatId, msgId, status, userId, text, senderId,
\* parts.  Locals: req (the currentUserId the callback closed over), ts,
\* idx (loop index), hasReadBy/newReadBy (updateData.readBy), todo (chat ids
\* still to load), cur (participants of the chat being loaded), loaded
\* (loadedChats).  result: "none" while running, then "true"/"false"/"null"/
\* "chat" (createChat's newChat) / "void" (loadChats).
Idle ==
    [ op |-> "none", pc |-> "idle", chatId |-> 0, msgId |-> 0, status |-> "sent",
      userId |-> NoUser, text |-> "", senderId |-> NoUser, parts |-> <<>>,
      req |-> NoUser, ts |-> 0, idx |-> 0, hasReadBy |-> FALSE, newReadBy |-> <<>>,
      todo |-> <<>>, cur |-> <<>>, loaded |-> <<>>, result |-> "none" ]

Free(p) == procs[p].pc \in {"idle", "done"}
\* a new call takes the first free slot (which slot it takes means nothing)
FirstFree(p) == Free(p) /\ (p = "p2" => ~Free("p1"))
InFlight(p) == ~Free(p)

\* a finished call keeps its arguments and its result, and drops its locals
Finish(rec, res) ==
    [ rec EXCEPT !.pc = "done", !.result = res, !.ts = 0, !.idx = 0,
                 !.hasReadBy = FALSE, !.newReadBy = <<>>, !.todo = <<>>,
                 !.cur = <<>>, !.loaded = <<>> ]

\* the rows of a chat, and of one message of a chat
RowsOfChat(c) == SelectSeq(msgTbl, LAMBDA r : r.chatId = c)
RowsOfMessage(c, m) == SelectSeq(msgTbl, LAMBDA r : r.chatId = c /\ r.id = m)

\* ORDER BY timestamp DESC LIMIT 1: a row of the chat with the greatest
\* timestamp; the order among equal timestamps is not specified by SQL.
LastRows(c) ==
    { r \in Range(RowsOfChat(c)) :
        \A q \in Range(RowsOfChat(c)) : q.timestamp <= r.timestamp }

\* ----------------------------------------------------- the in-memory view

\* A Message of the view, and a Chat.  lastMessage is <<>> when undefined,
\* else the one-element list of the message.
Message(id, senderId, text, timestamp, status, readBy) ==
    [ id |-> id, senderId |-> senderId, text |-> text, timestamp |-> timestamp,
      status |-> status, readBy |-> readBy ]

Chat(id, participants, messages, lastMessage) ==
    [ id |-> id, participants |-> participants, messages |-> messages,
      lastMessage |-> lastMessage ]

\* messages.find(m => m.id === id): the first match, <<>> when there is none
Find(messages, id) ==
    LET hits == { i \in 1..Len(messages) : messages[i].id = id }
    IN  IF hits = {} THEN <<>>
        ELSE << messages[CHOOSE i \in hits : \A j \in hits : i <= j] >>

\* ------------------------------------------------- a statement that fails

\* the table the statement at program position pc is about
StatementTable(pc) ==
    CASE pc \in {"insertMsg", "selectLast", "selectCurrent", "update", "selectMessages"}
           -> "messages"
      [] pc \in {"insertChat", "selectChat"} -> "chats"
      [] pc \in {"insertParticipant", "selectParticipantRows", "selectParticipants"}
           -> "chat_participants"
      [] OTHER -> "none"

\* the columns beyond CREATE TABLE messages that the hook's statements name
\* (m.status, m.readBy)
HookCols == {"status", "read_by"}

\* the store runs a statement on table t: the table exists and has the
\* columns the statement names
Usable(t) ==
    /\ t \in tables
    /\ t = "messages" => HookCols \subseteq Range(msgCols)

\* the awaited statement of call p rejects
Throws(p) == ~Usable(StatementTable(procs[p].pc))

\* Catch with a catch block that throws the error again
CatchAndRethrow(p) ==
    /\ procs' = [procs EXCEPT ![p] = Finish(@, "throws")]
    /\ loading' = IF procs[p].op = "loadChats" THEN FALSE ELSE loading
    /\ UNCHANGED <<clock, currentUser, storeVars, userChats, histVars, schemaVars>>

\* the catch block of the call: console.error and the failure value; the
\* finally block of loadChats does setLoading(false)
Catch(p) ==
    /\ procs' = [procs EXCEPT ![p] =
                    Finish(@, CASE procs[p].op = "createChat" -> "null"
                                [] procs[p].op = "loadChats" -> "void"
                                [] OTHER -> "false")]
    /\ loading' = IF procs[p].op = "loadChats" THEN FALSE ELSE loading
    /\ UNCHANGED <<clock, currentUser, storeVars, userChats, histVars, schemaVars>>

\* ------------------------------------------------------------ sendMessage

\* Date.now(): time does not go back, and may have advanced since the last
\* reading.
Now == { t \in Ids : t = clock \/ t = clock + 1 } \ {0}

\* the row sendMessage inserts; delivered_to is not among the values, and
\* the row has the column's DEFAULT '[]'
NewMessageRow(rec) ==
    [ id |-> rec.msgId, chatId |-> rec.chatId, senderId |-> rec.senderId,
      text |-> rec.text, timestamp |-> rec.ts, status |-> "sent",
      readBy |-> WrapInArray(JSONStringify(<<rec.senderId>>)),
      deliveredTo |-> <<>> ]

\* the Message sendMessage adds to the view
NewMessage(rec) ==
    Message(rec.msgId, rec.senderId, rec.text, rec.ts, "sent", <<rec.senderId>>)

\* prevChats.map(chat => chat.id === chatId ? {...chat, messages: [...], lastMessage} : chat)
AppendToChat(chats, chatId, msg) ==
    [ i \in 1..Len(chats) |->
        IF chats[i].id = chatId
        THEN [ chats[i] EXCEPT !.messages = Append(@, msg), !.lastMessage = <<msg>> ]
        ELSE chats[i] ]

\* sendMessage, up to its first await: the blank-text guard, the two
\* Date.now() readings (message id, then timestamp).
SendStart(p, c, text, sender) ==
    /\ FirstFree(p)
    /\ calls < MaxCalls
    /\ calls' = calls + 1
    /\ IF Trim(text) = ""
       THEN /\ procs' = [procs EXCEPT ![p] =
                   Finish([Idle EXCEPT !.op = "sendMessage", !.chatId = c,
                                       !.text = text, !.senderId = sender], "false")]
            /\ UNCHANGED clock
       ELSE \E t1 \in Now :
              \E t2 \in { t \in Ids : t = t1 \/ t = t1 + 1 } :
                /\ clock' = t2
                /\ procs' = [procs EXCEPT ![p] =
                       [Idle EXCEPT !.op = "sendMessage", !.pc = "insertMsg",
                                    !.chatId = c, !.text = text, !.senderId = sender,
                                    !.msgId = t1, !.ts = t2]]
    /\ UNCHANGED <<currentUser, storeVars, userChats, loading, maxReached, schemaVars>>

\* await db.insert(messages): fails on a primary-key collision and the
\* catch block returns false.
SendInsert(p) ==
    /\ procs[p].op = "sendMessage" /\ procs[p].pc = "insertMsg"
    /\ IF Throws(p)
       THEN Catch(p)
       ELSE /\ IF \E r \in Range(msgTbl) : r.id = procs[p].msgId
               THEN /\ procs' = [procs EXCEPT ![p] = Finish(@, "false")]
                    /\ UNCHANGED <<msgTbl, maxReached>>
               ELSE /\ msgTbl' = Append(msgTbl, NewMessageRow(procs[p]))
                    /\ maxReached' = [maxReached EXCEPT ![procs[p].msgId] = Rank("sent")]
                    /\ procs' = [procs EXCEPT ![p].pc = "sendSetState"]
            /\ UNCHANGED <<calls, clock, currentUser, chatsTbl, partTbl, userChats, loading, schemaVars>>

\* the continuation after the insert: setUserChats, return true
SendSetState(p) ==
    /\ procs[p].op = "sendMessage" /\ procs[p].pc = "sendSetState"
    /\ userChats' = AppendToChat(userChats, procs[p].chatId, NewMessage(procs[p]))
    /\ procs' = [procs EXCEPT ![p] = Finish(@, "true")]
    /\ UNCHANGED <<clock, currentUser, storeVars, loading, histVars, schemaVars>>

\* ---------------------------------------------------- updateMessageStatus

\* UpdateReadBy without the includes() test
UpdateReadByUnchecked(status, userId, current) ==
    IF status = "read" /\ userId # NoUser
    THEN << Append(IF current # <<>> THEN ParsedReadBy(current[1]) ELSE <<>>, userId) >>
    ELSE <<>>

\* updateData.readBy, when the call sets it: <<list>>, else <<>>.
\* `current` is the result of the select: the rows with this chat id and
\* message id (currentMessage is the first of them or undefined).
UpdateReadBy(status, userId, current) ==
    IF status = "read" /\ userId # NoUser
    THEN LET existingReadBy ==
                 IF current # <<>> THEN ParsedReadBy(current[1]) ELSE <<>>
         IN  IF ~Includes(existingReadBy, userId)
             THEN << Append(existingReadBy, userId) >>
             ELSE <<>>
    ELSE <<>>

\* ApplyUpdate that writes the whole row, with the text blanked
ApplyUpdateWholeRow(row, status, hasReadBy, newReadBy) ==
    [ row EXCEPT !.status = status, !.text = "",
                 !.readBy = IF hasReadBy THEN JSONStringify(newReadBy) ELSE @ ]

\* db.update(messages).set(updateData) applied to one row
ApplyUpdate(row, status, hasReadBy, newReadBy) ==
    [ row EXCEPT !.status = status,
                 !.readBy = IF hasReadBy THEN JSONStringify(newReadBy) ELSE @ ]

\* the view's message after the call: status set, userId appended to readBy
UpdatedMsg(msg, status, userId) ==
    [ msg EXCEPT !.status = status,
                 !.readBy = IF status = "read" /\ userId # NoUser
                            THEN Append(@, userId) ELSE @ ]

UpdateView(chats, chatId, messageId, status, userId) ==
    [ i \in 1..Len(chats) |->
        IF chats[i].id # chatId THEN chats[i]
        ELSE LET updatedMessages ==
                     [ j \in 1..Len(chats[i].messages) |->
                         IF chats[i].messages[j].id # messageId
                         THEN chats[i].messages[j]
                         ELSE UpdatedMsg(chats[i].messages[j], status, userId) ]
             IN  [ chats[i] EXCEPT
                     !.messages = updatedMessages,
                     !.lastMessage =
                         IF @ # <<>> /\ @[1].id = messageId
                         THEN Find(updatedMessages, messageId)
                         ELSE @ ] ]

\* the call, up to its first await
UmsStart(p, c, m, s, u) ==
    /\ FirstFree(p)
    /\ calls < MaxCalls
    /\ calls' = calls + 1
    /\ procs' = [procs EXCEPT ![p] =
           [Idle EXCEPT !.op = "updateMessageStatus", !.pc = "selectLast",
                        !.chatId = c, !.msgId = m, !.status = s, !.userId = u]]
    /\ UNCHANGED <<clock, currentUser, storeVars, userChats, loading, maxReached,
                   schemaVars>>

\* the results the select of the last message can have: the list of no row,
\* or of one row of greatest timestamp
SelectLast(c) ==
    IF LastRows(c) = {} THEN { <<>> } ELSE { <<r>> : r \in LastRows(c) }

\* IsNotLast that lets every call through
IsNotLastNever(lastMessage, messageId) == FALSE

\* lastMessage[0]?.id !== messageId
IsNotLast(lastMessage, messageId) ==
    IF lastMessage = <<>> THEN TRUE ELSE lastMessage[1].id # messageId

\* the select of the chat's last message and the check against messageId
UmsSelectLast(p) ==
    /\ procs[p].op = "updateMessageStatus" /\ procs[p].pc = "selectLast"
    /\ IF Throws(p)
       THEN Catch(p)
       ELSE /\ \E lastMessage \in SelectLast(procs[p].chatId) :
                  IF IsNotLast(lastMessage, procs[p].msgId)
                  THEN procs' = [procs EXCEPT ![p] = Finish(@, "false")]
                  ELSE procs' = [procs EXCEPT ![p].pc = "selectCurrent"]
            /\ UNCHANGED <<clock, currentUser, storeVars, userChats, loading, histVars,
                           schemaVars>>

\* the select of the current message and the preparation of updateData
UmsSelectCurrent(p) ==
    /\ procs[p].op = "updateMessageStatus" /\ procs[p].pc = "selectCurrent"
    /\ IF Throws(p)
       THEN Catch(p)
       ELSE /\ LET rb == UpdateReadBy(procs[p].status, procs[p].userId,
                                      RowsOfMessage(procs[p].chatId, procs[p].msgId))
               IN  procs' = [procs EXCEPT ![p].pc = "update",
                                          ![p].hasReadBy = (rb # <<>>),
                                          ![p].newReadBy = IF rb # <<>> THEN rb[1] ELSE <<>>]
            /\ UNCHANGED <<clock, currentUser, storeVars, userChats, loading, histVars,
                           schemaVars>>

\* await db.update(messages).set(updateData).where(chatId, id)
UmsUpdate(p) ==
    /\ procs[p].op = "updateMessageStatus" /\ procs[p].pc = "update"
    /\ IF Throws(p)
       THEN Catch(p)
       ELSE /\ msgTbl' = [ i \in 1..Len(msgTbl) |->
                             IF msgTbl[i].chatId = procs[p].chatId /\ msgTbl[i].id = procs[p].msgId
                             THEN ApplyUpdate(msgTbl[i], procs[p].status, procs[p].hasReadBy,
                                              procs[p].newReadBy)
                             ELSE msgTbl[i] ]
            /\ maxReached' =
                   [ m \in Ids |->
                       IF m = procs[p].msgId /\ RowsOfMessage(procs[p].chatId, m) # <<>>
                          /\ Rank(procs[p].status) > maxReached[m]
                       THEN Rank(procs[p].status) ELSE maxReached[m] ]
            /\ procs' = [procs EXCEPT ![p].pc = "umsSetState"]
            /\ UNCHANGED <<calls, clock, currentUser, chatsTbl, partTbl, userChats, loading, schemaVars>>

\* the continuation after the update: setUserChats, return true
UmsSetState(p) ==
    /\ procs[p].op = "updateMessageStatus" /\ procs[p].pc = "umsSetState"
    /\ userChats' = UpdateView(userChats, procs[p].chatId, procs[p].msgId,
                               procs[p].status, procs[p].userId)
    /\ procs' = [procs EXCEPT ![p] = Finish(@, "true")]
    /\ UNCHANGED <<clock, currentUser, storeVars, loading, histVars, schemaVars>>

\* -------------------------------------------------------------- createChat

\* CreateRejected without the membership test
CreateRejectedOnlyNull(req, participantIds) == req = NoUser

\* the guard of createChat: no current user, or one who is not a participant
CreateRejected(req, participantIds) ==
    req = NoUser \/ ~Includes(participantIds, req)

\* the participant row of user userId in chat chatId; its primary key is
\* `cp-${chatId}-${userId}`
ParticipantRow(chatId, userId) ==
    [ id |-> <<chatId, userId>>, chatId |-> chatId, userId |-> userId ]

\* the call, up to its first await: the guard and chatId = `chat${Date.now()}`
CreateStart(p, participantIds) ==
    /\ FirstFree(p)
    /\ calls < MaxCalls
    /\ calls' = calls + 1
    /\ IF CreateRejected(currentUser, participantIds)
       THEN /\ procs' = [procs EXCEPT ![p] =
                   Finish([Idle EXCEPT !.op = "createChat", !.parts = participantIds,
                                       !.req = currentUser], "null")]
            /\ UNCHANGED clock
       ELSE \E t \in Now :
              /\ clock' = t
              /\ procs' = [procs EXCEPT ![p] =
                     [Idle EXCEPT !.op = "createChat", !.pc = "insertChat",
                                  !.parts = participantIds, !.req = currentUser,
                                  !.chatId = t]]
    /\ UNCHANGED <<currentUser, storeVars, userChats, loading, maxReached, schemaVars>>

\* await db.insert(chats): fails on a primary-key collision, and the catch
\* block returns null
CreateInsertChat(p) ==
    /\ procs[p].op = "createChat" /\ procs[p].pc = "insertChat"
    /\ IF Throws(p)
       THEN Catch(p)
       ELSE /\ IF procs[p].chatId \in chatsTbl
               THEN /\ procs' = [procs EXCEPT ![p] = Finish(@, "null")]
                    /\ UNCHANGED chatsTbl
               ELSE /\ chatsTbl' = chatsTbl \cup {procs[p].chatId}
                    /\ procs' = [procs EXCEPT ![p].pc = "insertParticipant", ![p].idx = 1]
            /\ UNCHANGED <<clock, currentUser, partTbl, msgTbl, userChats, loading, histVars,
                           schemaVars>>

\* one turn of the participant loop: await db.insert(chatParticipants).
\* A primary-key collision throws, and the catch block returns null; nothing
\* inserted so far is taken back.
CreateInsertParticipant(p) ==
    /\ procs[p].op = "createChat" /\ procs[p].pc = "insertParticipant"
    /\ IF Throws(p)
       THEN Catch(p)
       ELSE /\ LET row == ParticipantRow(procs[p].chatId, procs[p].parts[procs[p].idx])
               IN  IF \E r \in Range(partTbl) : r.id = row.id
                   THEN /\ procs' = [procs EXCEPT ![p] = Finish(@, "null")]
                        /\ UNCHANGED partTbl
                   ELSE /\ partTbl' = Append(partTbl, row)
                        /\ procs' = [procs EXCEPT
                               ![p].pc = IF procs[p].idx = Len(procs[p].parts)
                                         THEN "createSetState" ELSE "insertParticipant",
                               ![p].idx = @ + 1]
            /\ UNCHANGED <<clock, currentUser, chatsTbl, msgTbl, userChats, loading, histVars,
                           schemaVars>>

\* the continuation after the last insert: setUserChats(prev => [...prev,
\* newChat]), return newChat
CreateSetState(p) ==
    /\ procs[p].op = "createChat" /\ procs[p].pc = "createSetState"
    /\ userChats' = Append(userChats, Chat(procs[p].chatId, procs[p].parts, <<>>, <<>>))
    /\ procs' = [procs EXCEPT ![p] = Finish(@, "chat")]
    /\ UNCHANGED <<clock, currentUser, storeVars, loading, histVars, schemaVars>>

\* --------------------------------------------------------------- loadChats

\* rows sorted by timestamp ascending (ORDER BY messages.timestamp); rows of
\* equal timestamp keep their insertion order
RECURSIVE SortByTimestamp(_)
SortByTimestamp(rows) ==
    IF rows = <<>> THEN <<>>
    ELSE LET least == CHOOSE i \in 1..Len(rows) :
                          /\ \A j \in 1..Len(rows) : rows[i].timestamp <= rows[j].timestamp
                          /\ \A j \in 1..(i - 1) : rows[j].timestamp # rows[i].timestamp
             rest == [ k \in 1..(Len(rows) - 1) |-> IF k < least THEN rows[k] ELSE rows[k + 1] ]
         IN  <<rows[least]>> \o SortByTimestamp(rest)

\* messagesData.map(m => ({...})): a row as a Message of the view
RowToMessage(m) ==
    Message(m.id, m.senderId, m.text, m.timestamp, m.status, ParsedReadBy(m))

\* the Chat assembled from the participants and the message rows of a chat
LoadedChat(chatId, participantIds, messagesData) ==
    LET chatMessages == [ i \in 1..Len(messagesData) |-> RowToMessage(messagesData[i]) ]
    IN  Chat(chatId, participantIds, chatMessages,
             IF Len(chatMessages) > 0 THEN <<chatMessages[Len(chatMessages)]>> ELSE <<>>)

\* The current user changes (login, logout) and the effect runs loadChats
\* for the new currentUserId.  With no user it sets the empty list at once.
SetUser(p, u) ==
    /\ u # currentUser
    /\ currentUser' = u
    /\ IF u = NoUser
       THEN /\ userChats' = <<>>
            /\ loading' = FALSE
            /\ UNCHANGED <<procs, calls>>
       ELSE /\ FirstFree(p)
            /\ calls < MaxCalls
            /\ calls' = calls + 1
            /\ procs' = [procs EXCEPT ![p] =
                   [Idle EXCEPT !.op = "loadChats", !.pc = "selectParticipantRows",
                                !.req = u]]
            /\ UNCHANGED <<userChats, loading>>
    /\ UNCHANGED <<clock, storeVars, maxReached, schemaVars>>

\* the select of the user's participant rows
LoadSelectParticipantRows(p) ==
    /\ procs[p].op = "loadChats" /\ procs[p].pc = "selectParticipantRows"
    /\ IF Throws(p)
       THEN Catch(p)
       ELSE /\ LET chatIds == MapChatId(SelectSeq(partTbl, LAMBDA r : r.userId = procs[p].req))
               IN  procs' = [procs EXCEPT
                       ![p].pc = IF Len(chatIds) = 0 THEN "loadSetState" ELSE "selectChat",
                       ![p].todo = chatIds]
            /\ UNCHANGED <<clock, currentUser, storeVars, userChats, loading, histVars,
                           schemaVars>>

\* where the loop goes once the chat at the head of todo is dealt with
AfterChat(rec) == IF Len(rec.todo) = 1 THEN "loadSetState" ELSE "selectChat"

\* the select of the chat row; a chat id with no row is skipped
LoadSelectChat(p) ==
    /\ procs[p].op = "loadChats" /\ procs[p].pc = "selectChat"
    /\ IF Throws(p)
       THEN Catch(p)
       ELSE /\ IF Head(procs[p].todo) \notin chatsTbl
               THEN procs' = [procs EXCEPT ![p].pc = AfterChat(procs[p]), ![p].todo = Tail(@)]
               ELSE procs' = [procs EXCEPT ![p].pc = "selectParticipants"]
            /\ UNCHANGED <<clock, currentUser, storeVars, userChats, loading, histVars,
                           schemaVars>>

\* the select of the chat's participant rows
LoadSelectParticipants(p) ==
    /\ procs[p].op = "loadChats" /\ procs[p].pc = "selectParticipants"
    /\ IF Throws(p)
       THEN Catch(p)
       ELSE /\ procs' = [procs EXCEPT
                   ![p].pc = "selectMessages",
                   ![p].cur = MapUserId(SelectSeq(partTbl,
                                                  LAMBDA r : r.chatId = Head(procs[p].todo)))]
            /\ UNCHANGED <<clock, currentUser, storeVars, userChats, loading, histVars,
                           schemaVars>>

\* the select of the chat's messages, and loadedChats.push
LoadSelectMessages(p) ==
    /\ procs[p].op = "loadChats" /\ procs[p].pc = "selectMessages"
    /\ IF Throws(p)
       THEN Catch(p)
       ELSE /\ LET chatId == Head(procs[p].todo)
               IN  procs' = [procs EXCEPT
                       ![p].pc = AfterChat(procs[p]),
                       ![p].todo = Tail(@),
                       ![p].cur = <<>>,
                       ![p].loaded = Append(@, LoadedChat(chatId, procs[p].cur,
                                                          SortByTimestamp(RowsOfChat(chatId))))]
            /\ UNCHANGED <<clock, currentUser, storeVars, userChats, loading, histVars,
                           schemaVars>>

\* the continuation after the last select: setUserChats(loadedChats), and
\* setLoading(false) in the finally block
LoadSetState(p) ==
    /\ procs[p].op = "loadChats" /\ procs[p].pc = "loadSetState"
    /\ userChats' = procs[p].loaded
    /\ loading' = FALSE
    /\ procs' = [procs EXCEPT ![p] = Finish(@, "void")]
    /\ UNCHANGED <<clock, currentUser, storeVars, histVars, schemaVars>>

\* ------------------------------------------------------ initializeDatabase

AllTables == {"users", "chats", "chat_participants", "messages"}

\* the columns CREATE TABLE messages gives the table
BaseCols == <<"id", "chat_id", "sender_id", "text", "timestamp">>

\* the columns added by ALTER TABLE, in the order the code looks at them
AddedCols ==
    <<"status", "read_by", "delivered_to", "reaction", "is_deleted", "edited_at", "media">>

\* the DEFAULT of each added column (NULL when the statement names none)
ColumnDefault(col) ==
    CASE col = "status" -> "sent"
      [] col = "read_by" -> "[]"
      [] col = "delivered_to" -> "[]"
      [] col = "is_deleted" -> "0"
      [] OTHER -> "NULL"

\* ColumnMissing that never finds the column
ColumnMissingAlways(snapshot, col) == TRUE

\* !messagesColumns.some(column => column.name === col)
ColumnMissing(snapshot, col) == col \notin snapshot

\* the index in AddedCols of the first column from index k on that the
\* snapshot lacks; 0 when there is none
NextMissing(snapshot, k) ==
    LET todo == { i \in k..Len(AddedCols) : ColumnMissing(snapshot, AddedCols[i]) }
    IN  IF todo = {} THEN 0 ELSE CHOOSE i \in todo : \A j \in todo : i <= j

\* initializeDatabase is called (on every process start)
InitStart ==
    /\ initPc \in {"idle", "done", "failed"}
    /\ initPc' = "createUsers"
    /\ UNCHANGED <<clock, currentUser, storeVars, userChats, loading, procs, histVars,
                   tables, msgCols, legacyRows, pragma, initCol>>

\* CREATE TABLE IF NOT EXISTS users / chats / chat_participants
InitCreateTable(at, name, next) ==
    /\ initPc = at
    /\ tables' = tables \cup {name}
    /\ initPc' = next
    /\ UNCHANGED <<clock, currentUser, storeVars, userChats, loading, procs, histVars,
                   msgCols, legacyRows, pragma, initCol>>

\* CREATE TABLE IF NOT EXISTS messages
InitCreateMessages ==
    /\ initPc = "createMessages"
    /\ tables' = tables \cup {"messages"}
    /\ msgCols' = IF "messages" \in tables THEN msgCols ELSE BaseCols
    /\ initPc' = "pragma"
    /\ UNCHANGED <<clock, currentUser, storeVars, userChats, loading, procs, histVars,
                   legacyRows, pragma, initCol>>

\* PRAGMA table_info(messages), and the column checks up to the first ALTER
InitPragma ==
    /\ initPc = "pragma"
    /\ pragma' = Range(msgCols)
    /\ initCol' = NextMissing(Range(msgCols), 1)
    /\ initPc' = IF NextMissing(Range(msgCols), 1) = 0 THEN "done" ELSE "alter"
    /\ UNCHANGED <<clock, currentUser, storeVars, userChats, loading, procs, histVars,
                   tables, msgCols, legacyRows>>

\* ALTER TABLE messages ADD COLUMN: an error when the table has the column
\* already (the catch block rethrows); else every row gets the default.
\* Then the column checks up to the next ALTER.
InitAlter ==
    /\ initPc = "alter"
    /\ LET col == AddedCols[initCol]
       IN  IF col \in Range(msgCols)
           THEN /\ initPc' = "failed"
                /\ UNCHANGED <<msgCols, legacyRows, initCol>>
           ELSE /\ msgCols' = Append(msgCols, col)
                /\ legacyRows' =
                       [ i \in 1..Len(legacyRows) |->
                           [ c \in DOMAIN legacyRows[i] \cup {col} |->
                               IF c = col THEN ColumnDefault(col) ELSE legacyRows[i][c] ] ]
                /\ initCol' = NextMissing(pragma, initCol + 1)
                /\ initPc' = IF NextMissing(pragma, initCol + 1) = 0 THEN "done" ELSE "alter"
    /\ UNCHANGED <<clock, currentUser, storeVars, userChats, loading, procs, histVars,
                   tables, pragma>>

\* ------------------------------------------------------- the specifications

\* What loadChats for user u makes of a store that nothing else touches
\* while it runs.
RECURSIVE LoadChatsOf(_, _, _, _)
LoadChatsOf(chatIds, chats, parts, msgs) ==
    IF chatIds = <<>> THEN <<>>
    ELSE LET chatId == Head(chatIds)
             rest == LoadChatsOf(Tail(chatIds), chats, parts, msgs)
         IN  IF chatId \notin chats THEN rest
             ELSE << LoadedChat(chatId,
                                MapUserId(SelectSeq(parts, LAMBDA r : r.chatId = chatId)),
                                SortByTimestamp(SelectSeq(msgs, LAMBDA r : r.chatId = chatId))) >>
                  \o rest

LoadChats(u, chats, parts, msgs) ==
    LoadChatsOf(MapChatId(SelectSeq(parts, LAMBDA r : r.userId = u)), chats, parts, msgs)

\* The stores a session starts on: an empty one, and one an earlier session
\* left with the chat 1 of A and B and A's message 1 in it.
InitStores ==
    { [ chats |-> {}, parts |-> <<>>, msgs |-> <<>> ],
      [ chats |-> {1},
        parts |-> << ParticipantRow(1, "A"), ParticipantRow(1, "B") >>,
        msgs |-> << NewMessageRow([ msgId |-> 1, chatId |-> 1, senderId |-> "A",
                                    text |-> "hi", ts |-> 1 ]) >> ] }

\* The hook once its first effect has run to its end on a store whose schema
\* is in place: with no user logged in, or with A logged in and A's chats
\* loaded.
Init ==
    /\ clock = 1
    /\ \E st \in InitStores, u \in {NoUser, "A"} :
          /\ currentUser = u
          /\ chatsTbl = st.chats
          /\ partTbl = st.parts
          /\ msgTbl = st.msgs
          /\ userChats = IF u = NoUser THEN <<>>
                         ELSE LoadChats(u, st.chats, st.parts, st.msgs)
          /\ maxReached = [ m \in Ids |->
                              IF \E r \in Range(st.msgs) : r.id = m
                              THEN Rank("sent") ELSE -1 ]
    /\ loading = FALSE
    /\ procs = [ p \in Procs |-> Idle ]
    /\ calls = 0
    /\ tables = AllTables
    /\ msgCols = BaseCols \o AddedCols
    /\ legacyRows = <<>>
    /\ initPc = "done"
    /\ pragma = Range(BaseCols)
    /\ initCol = 0

Next ==
    \/ \E p \in Procs, u \in LoginUsers \cup {NoUser} : SetUser(p, u)
    \/ \E p \in Procs : LoadSelectParticipantRows(p)
    \/ \E p \in Procs : LoadSelectChat(p)
    \/ \E p \in Procs : LoadSelectParticipants(p)
    \/ \E p \in Procs : LoadSelectMessages(p)
    \/ \E p \in Procs : LoadSetState(p)
    \/ \E p \in Procs, ids \in ParticipantInputs : CreateStart(p, ids)
    \/ \E p \in Procs : CreateInsertChat(p)
    \/ \E p \in Procs : CreateInsertParticipant(p)
    \/ \E p \in Procs : CreateSetState(p)
    \/ \E p \in Procs, c \in ChatInputs, t \in Texts, s \in Senders : SendStart(p, c, t, s)
    \/ \E p \in Procs : SendInsert(p)
    \/ \E p \in Procs : SendSetState(p)
    \/ \E p \in Procs, c \in ChatInputs, m \in Ids, s \in {"delivered", "read"},
          u \in Users \cup {NoUser} : UmsStart(p, c, m, s, u)
    \/ \E p \in Procs : UmsSelectLast(p)
    \/ \E p \in Procs : UmsSelectCurrent(p)
    \/ \E p \in Procs : UmsUpdate(p)
    \/ \E p \in Procs : UmsSetState(p)

Spec == Init /\ [][Next]_vars

\* The calls made one after another: a call starts only when no other call
\* is in flight.
Quiet == \A p \in Procs : Free(p)

NextSeq ==
    \/ \E p \in Procs, u \in LoginUsers \cup {NoUser} : Quiet /\ SetUser(p, u)
    \/ \E p \in Procs : LoadSelectParticipantRows(p)
    \/ \E p \in Procs : LoadSelectChat(p)
    \/ \E p \in Procs : LoadSelectParticipants(p)
    \/ \E p \in Procs : LoadSelectMessages(p)
    \/ \E p \in Procs : LoadSetState(p)
    \/ \E p \in Procs, ids \in ParticipantInputs : Quiet /\ CreateStart(p, ids)
    \/ \E p \in Procs : CreateInsertChat(p)
    \/ \E p \in Procs : CreateInsertParticipant(p)
    \/ \E p \in Procs : CreateSetState(p)
    \/ \E p \in Procs, c \in ChatInputs, t \in Texts, s \in Senders :
          Quiet /\ SendStart(p, c, t, s)
    \/ \E p \in Procs : SendInsert(p)
    \/ \E p \in Procs : SendSetState(p)
    \/ \E p \in Procs, c \in ChatInputs, m \in Ids, s \in {"delivered", "read"},
          u \in Users \cup {NoUser} : Quiet /\ UmsStart(p, c, m, s, u)
    \/ \E p \in Procs : UmsSelectLast(p)
    \/ \E p \in Procs : UmsSelectCurrent(p)
    \/ \E p \in Procs : UmsUpdate(p)
    \/ \E p \in Procs : UmsSetState(p)

SpecSeq == Init /\ [][NextSeq]_vars

\* initializeDatabase alone, started on any earlier version of the schema:
\* any of the tables, and when there is a table messages, any of the added
\* columns; with no row or with one row in the table.
RECURSIVE ColsAmong(_, _)
ColsAmong(cols, keep) ==
    IF cols = <<>> THEN <<>>
    ELSE IF Head(cols) \in keep
         THEN <<Head(cols)>> \o ColsAmong(Tail(cols), keep)
         ELSE ColsAmong(Tail(cols), keep)

LegacyRow(cols) == [ c \in Range(cols) |-> "v" ]

InitSchema ==
    /\ clock = 1
    /\ currentUser = NoUser
    /\ chatsTbl = {}
    /\ partTbl = <<>>
    /\ msgTbl = <<>>
    /\ userChats = <<>>
    /\ loading = TRUE
    /\ procs = [ p \in Procs |-> Idle ]
    /\ calls = 0
    /\ maxReached = [ m \in Ids |-> -1 ]
    /\ tables \in SUBSET AllTables
    /\ \E present \in SUBSET Range(AddedCols) :
          msgCols = IF "messages" \in tables
                    THEN BaseCols \o ColsAmong(AddedCols, present)
                    ELSE <<>>
    /\ legacyRows \in IF "messages" \in tables
                      THEN { <<>>, << LegacyRow(msgCols) >> }
                      ELSE { <<>> }
    /\ initPc = "idle"
    /\ pragma = {}
    /\ initCol = 0

NextSchema ==
    \/ InitStart
    \/ InitCreateTable("createUsers", "users", "createChats")
    \/ InitCreateTable("createChats", "chats", "createParticipants")
    \/ InitCreateTable("createParticipants", "chat_participants", "createMessages")
    \/ InitCreateMessages
    \/ InitPragma
    \/ InitAlter

SpecSchema == InitSchema /\ [][NextSchema]_vars

\* ------------------------------------------------------------- properties


\* C1: a message's persisted status never regresses: no step takes the
\* status of a stored message from read to delivered or sent, or from
\* delivered to sent.
C1_StatusNeverRegresses ==
    [][ \A i \in 1..Len(msgTbl) :
          Rank(msgTbl'[i].status) >= Rank(msgTbl[i].status) ]_vars

\* the calls p and q are updateMessageStatus(c, m, delivered, B) and
\* updateMessageStatus(c, m, read, B) for one message
DeliveredAndRead(p, q) ==
    /\ procs[p].op = "updateMessageStatus" /\ procs[q].op = "updateMessageStatus"
    /\ procs[p].chatId = procs[q].chatId /\ procs[p].msgId = procs[q].msgId
    /\ procs[p].userId = "B" /\ procs[q].userId = "B"
    /\ procs[p].status = "delivered" /\ procs[q].status = "read"

\* C2: when updateMessageStatus(c, m, delivered, B) and
\* updateMessageStatus(c, m, read, B) run concurrently and both have written
\* (neither has returned yet), the persisted status is read and readBy holds
\* B exactly once.
C2_ConcurrentDeliveredAndRead ==
    \A p, q \in Procs :
        ( /\ DeliveredAndRead(p, q)
          /\ procs[p].pc = "umsSetState" /\ procs[q].pc = "umsSetState" )
        => \A r \in Range(RowsOfMessage(procs[p].chatId, procs[p].msgId)) :
               /\ r.status = "read"
               /\ Count(ParsedReadBy(r), procs[p].userId) = 1

\* C3: the persisted readBy of a message only grows: every user id in it
\* before a step is in it after the step.
C3_ReadByOnlyGrows ==
    [][ \A i \in 1..Len(msgTbl) :
          Range(ParsedReadBy(msgTbl[i])) \subseteq Range(ParsedReadBy(msgTbl'[i])) ]_vars

\* C4: when no call is in flight, the persisted status of every message is
\* the highest status it has reached in the order sent < delivered < read.
C4_FinalStatusIsMaximum ==
    Quiet => \A r \in Range(msgTbl) : Rank(r.status) = maxReached[r.id]

\* the call in slot p is updateMessageStatus(c, m, read, uid) with a user id,
\* and it has written the store
ReadCallWritten(p) ==
    /\ procs[p].op = "updateMessageStatus"
    /\ procs[p].status = "read" /\ procs[p].userId # NoUser
    /\ \/ procs[p].pc = "umsSetState"
       \/ procs[p].pc = "done" /\ procs[p].result = "true"

\* the call in slot p is updateMessageStatus(c, m, read, uid) with a user id
\* on a message that exists, and it has returned
ReadCallReturned(p) ==
    /\ procs[p].op = "updateMessageStatus"
    /\ procs[p].status = "read" /\ procs[p].userId # NoUser
    /\ procs[p].pc = "done"
    /\ RowsOfMessage(procs[p].chatId, procs[p].msgId) # <<>>

\* C5 as stated: with the calls made one after another, once an
\* updateMessageStatus(c, m, read, uid) call on an existing message has
\* returned, the persisted readBy of the message holds uid exactly once.
C5_ReadByHoldsReaderOnce ==
    \A p \in Procs :
        ReadCallReturned(p)
        => \A r \in Range(RowsOfMessage(procs[p].chatId, procs[p].msgId)) :
               Count(ParsedReadBy(r), procs[p].userId) = 1

\* C5 amended: with the calls made one after another, once an
\* updateMessageStatus(c, m, read, uid) call has written the store (it found
\* the message to be the newest of its chat, and returns true), the persisted
\* readBy of the message holds uid exactly once, however often the call is
\* repeated; and no persisted readBy holds any user id twice.
C5_SuccessfulReadHoldsReaderOnce ==
    /\ \A p \in Procs :
         ReadCallWritten(p)
         => /\ RowsOfMessage(procs[p].chatId, procs[p].msgId) # <<>>
            /\ \A r \in Range(RowsOfMessage(procs[p].chatId, procs[p].msgId)) :
                 Count(ParsedReadBy(r), procs[p].userId) = 1
    /\ \A r \in Range(msgTbl), u \in Users : Count(ParsedReadBy(r), u) <= 1

\* C5 witness: a repeated read call by B (B was in readBy already, so the
\* call left updateData.readBy unset) has written, and readBy holds B once.
C5_Witness ==
    \E p \in Procs :
        /\ ReadCallWritten(p) /\ procs[p].pc = "umsSetState"
        /\ procs[p].userId = "B" /\ ~procs[p].hasReadBy
        /\ \E r \in Range(RowsOfMessage(procs[p].chatId, procs[p].msgId)) :
             Count(ParsedReadBy(r), "B") = 1

\* C6: createChat is atomic: when the call fails in the participant loop
\* (after it inserted the chat row), neither the chat row nor any participant
\* row of the chat is in the store.
C6_CreateChatIsAtomic ==
    [][ \A p \in Procs :
          ( /\ procs[p].op = "createChat" /\ procs[p].pc = "insertParticipant"
            /\ procs'[p].pc = "done" /\ procs'[p].result = "null" )
          => /\ procs[p].chatId \notin chatsTbl'
             /\ \A r \in Range(partTbl') : r.chatId # procs[p].chatId ]_vars

\* C7: a createChat call with fewer than 2 distinct participant ids fails:
\* once it has returned, it has returned null (and so made no chat).
C7_MinimumTwoParticipants ==
    \A p \in Procs :
        ( /\ procs[p].op = "createChat" /\ procs[p].pc = "done"
          /\ Cardinality(Range(procs[p].parts)) < 2 )
        => procs[p].result = "null"

\* the createChat call in slot p was made with no current user or by a user
\* who is not among participantIds
RequesterNotParticipant(rec) ==
    /\ rec.op = "createChat"
    /\ rec.req = NoUser \/ rec.req \notin Range(rec.parts)

\* C8: a createChat call made with no current user, or by a user who is not
\* in participantIds, returns null at once, and the step leaves the tables
\* chats and chat_participants and the chat list of the view unchanged.
C8_RejectedCreateChangesNothing ==
    [][ \A p \in Procs :
          (RequesterNotParticipant(procs'[p]) /\ procs'[p] # procs[p])
          => /\ procs'[p].pc = "done" /\ procs'[p].result = "null"
             /\ UNCHANGED <<chatsTbl, partTbl, msgTbl, userChats>> ]_vars

\* C8 witness: A's createChat([B, C]) has returned null.
C8_Witness ==
    \E p \in Procs :
        /\ RequesterNotParticipant(procs[p]) /\ procs[p].req = "A"
        /\ procs[p].parts = <<"B", "C">>
        /\ procs[p].pc = "done" /\ procs[p].result = "null"

\* the store holds one chat, and its participant rows are those of A and B
OneChatOfAandB ==
    /\ Cardinality(chatsTbl) = 1
    /\ Len(partTbl) = 2
    /\ \A r \in Range(partTbl) : r.chatId \in chatsTbl
    /\ { r.userId : r \in Range(partTbl) } = {"A", "B"}

\* C9: with the calls made one after another, when the store holds the one
\* chat createChat([A, B]) made, a loadChats for A or for B that has set the
\* view leaves exactly one chat in it, that chat, with participants {A, B}.
C9_BothParticipantsLoadTheChat ==
    \A p \in Procs :
        ( /\ procs[p].op = "loadChats" /\ procs[p].pc = "done"
          /\ procs[p].req = currentUser
          /\ OneChatOfAandB )
        => /\ Len(userChats) = 1
           /\ userChats[1].id \in chatsTbl
           /\ Range(userChats[1].participants) = {"A", "B"}
           /\ Len(userChats[1].participants) = 2

\* C9 witness: A created chat 2 on the empty store, then B logged in and B's
\* loadChats has set the view to that chat.
C9_Witness ==
    \E p \in Procs :
        /\ procs[p].op = "loadChats" /\ procs[p].pc = "done" /\ procs[p].req = "B"
        /\ currentUser = "B"
        /\ chatsTbl = {2} /\ OneChatOfAandB
        /\ Len(userChats) = 1 /\ userChats[1].id = 2

\* the schema is complete: the four tables, and the base columns and the
\* seven added columns of table messages, each once
SchemaComplete ==
    /\ tables = AllTables
    /\ Range(msgCols) = Range(BaseCols) \cup Range(AddedCols)
    /\ Len(msgCols) = Len(BaseCols) + Len(AddedCols)

\* C10: initializeDatabase, started on any earlier version of the schema,
\* does not fail and ends with the schema complete; and run on a complete
\* schema (a second run) it changes no table, no column and no row.
C10_SchemaInitIsIdempotent ==
    /\ [](initPc # "failed")
    /\ [](initPc = "done" => SchemaComplete)
    /\ [][SchemaComplete => UNCHANGED <<tables, msgCols, legacyRows>>]_vars

\* C10 witness: a run added column status to a table that had a row (the row
\* got the default), and a later run, whose PRAGMA found every column, has
\* ended.
C10_Witness ==
    /\ initPc = "done"
    /\ pragma = Range(BaseCols) \cup Range(AddedCols)
    /\ Len(legacyRows) = 1
    /\ legacyRows[1]["status"] = "sent"
    /\ legacyRows[1]["id"] = "v"


\* --------------------------------------------------------- the app's start
\* The application as it starts: initializeDatabase has not run, the hook is
\* mounted with its initial state (userChats [], loading true, no user) and
\* its callbacks are handed out by the context.  The store is new, or it is
\* the store of an earlier version of the application.
StartupStores ==
    { [ tables |-> {}, cols |-> <<>>,
        chats |-> {}, parts |-> <<>>, msgs |-> <<>> ],
      [ tables |-> AllTables, cols |-> BaseCols,
        chats |-> {1},
        parts |-> << ParticipantRow(1, "A"), ParticipantRow(1, "B") >>,
        msgs |-> <<>> ],
      [ tables |-> AllTables, cols |-> BaseCols \o <<"status", "read_by">>,
        chats |-> {1},
        parts |-> << ParticipantRow(1, "A"), ParticipantRow(1, "B") >>,
        msgs |-> << NewMessageRow([ msgId |-> 1, chatId |-> 1, senderId |-> "A",
                                    text |-> "hi", ts |-> 1 ]) >> ] }

InitStartup ==
    /\ clock = 1
    /\ currentUser = NoUser
    /\ userChats = <<>>
    /\ loading = TRUE
    /\ procs = [ p \in Procs |-> Idle ]
    /\ calls = 0
    /\ \E st \in StartupStores :
          /\ tables = st.tables
          /\ msgCols = st.cols
          /\ chatsTbl = st.chats
          /\ partTbl = st.parts
          /\ msgTbl = st.msgs
          /\ maxReached = [ m \in Ids |->
                              IF \E r \in Range(st.msgs) : r.id = m
                              THEN Rank("sent") ELSE -1 ]
    /\ legacyRows = <<>>
    /\ initPc = "idle"
    /\ pragma = {}
    /\ initCol = 0

\* the steps of initializeDatabase and the hook's calls (one call at a time),
\* in any order: nothing in the hook looks at the state of initializeDatabase
NextStartup ==
    \/ NextSchema
    \/ NextSeq

SpecStartup == InitStartup /\ [][NextStartup]_vars

\* the program positions at which a call awaits a statement of the store
StorePcs ==
    { "insertMsg", "selectLast", "selectCurrent", "update", "selectMessages",
      "insertChat", "selectChat", "insertParticipant", "selectParticipantRows",
      "selectParticipants" }

\* a call of the hook runs one of its statements against the store
StoreStep == \E p \in Procs : procs[p].pc \in StorePcs /\ procs'[p] # procs[p]

\* C11: no statement of loadChats, createChat, sendMessage or
\* updateMessageStatus runs against the store unless initializeDatabase has
\* run to completion; none runs between the CREATE / ALTER steps.
C11_NoStoreStepBeforeSchemaIsReady == [][StoreStep => initPc = "done"]_vars


\* ------------------------------------------------- the calls on one chat
\* sendMessage and updateMessageStatus, in any interleaving, on a chat of A
\* and B that exists (as createChat leaves it) and has no message yet.
InitMessages ==
    /\ clock = 1
    /\ currentUser = "A"
    /\ chatsTbl = {1}
    /\ partTbl = << ParticipantRow(1, "A"), ParticipantRow(1, "B") >>
    /\ msgTbl = <<>>
    /\ userChats = LoadChats("A", chatsTbl, partTbl, msgTbl)
    /\ maxReached = [ m \in Ids |-> -1 ]
    /\ loading = FALSE
    /\ procs = [ p \in Procs |-> Idle ]
    /\ calls = 0
    /\ tables = AllTables
    /\ msgCols = BaseCols \o AddedCols
    /\ legacyRows = <<>>
    /\ initPc = "done"
    /\ pragma = Range(BaseCols)
    /\ initCol = 0

NextMessages ==
    \/ \E p \in Procs, c \in ChatInputs, t \in Texts, s \in Senders :
          SendStart(p, c, t, s)
    \/ \E p \in Procs : SendInsert(p)
    \/ \E p \in Procs : SendSetState(p)
    \/ \E p \in Procs, c \in ChatInputs, m \in Ids, s \in {"delivered", "read"},
          u \in Users \cup {NoUser} : UmsStart(p, c, m, s, u)
    \/ \E p \in Procs : UmsSelectLast(p)
    \/ \E p \in Procs : UmsSelectCurrent(p)
    \/ \E p \in Procs : UmsUpdate(p)
    \/ \E p \in Procs : UmsSetState(p)

SpecMessages == InitMessages /\ [][NextMessages]_vars

\* the messages of a view chat are in non-decreasing timestamp order
OrderedByTimestamp(messages) ==
    \A i, j \in 1..Len(messages) :
        i < j => messages[i].timestamp <= messages[j].timestamp

\* the preview of a view chat is one of its messages of greatest timestamp
LastIsNewest(chat) ==
    chat.messages # <<>> =>
        /\ chat.lastMessage # <<>>
        /\ chat.lastMessage[1] \in Range(chat.messages)
        /\ \A i \in 1..Len(chat.messages) :
              chat.messages[i].timestamp <= chat.lastMessage[1].timestamp

\* C12: in every reachable state every chat of the view has its messages in
\* non-decreasing timestamp order and its lastMessage is the message of
\* greatest timestamp, also when two sendMessage calls on the chat overlap.
C12_ViewOrderedAndLastIsNewest ==
    \A i \in 1..Len(userChats) :
        /\ OrderedByTimestamp(userChats[i].messages)
        /\ LastIsNewest(userChats[i])


\* call p runs its first select while the store has no message with the
\* chat id and message id the call names
LooksUpMissingMessage(p) ==
    /\ procs[p].op = "updateMessageStatus" /\ procs[p].pc = "selectLast"
    /\ RowsOfMessage(procs[p].chatId, procs[p].msgId) = <<>>
    /\ procs'[p] # procs[p]

\* C13: updateMessageStatus on a chat id and message id with no message
\* returns false at its first select and leaves every stored row and the
\* view as they are.
C13_MissingMessageFailsAndChangesNothing ==
    [][\A p \in Procs :
          LooksUpMissingMessage(p) =>
              /\ procs'[p].pc = "done" /\ procs'[p].result = "false"
              /\ UNCHANGED <<storeVars, userChats>>]_vars

\* a call on a message that does not exist has returned false, in a chat
\* that has another message
C13_Witness ==
    \E p \in Procs :
        /\ procs[p].op = "updateMessageStatus" /\ procs[p].pc = "done"
        /\ procs[p].result = "false"
        /\ RowsOfMessage(procs[p].chatId, procs[p].msgId) = <<>>
        /\ RowsOfChat(procs[p].chatId) # <<>>


\* call p writes status 'delivered' on behalf of a user
WritesDelivered(p) ==
    /\ procs[p].op = "updateMessageStatus" /\ procs[p].pc = "update"
    /\ procs[p].status = "delivered" /\ procs[p].userId # NoUser
    /\ procs'[p].pc = "umsSetState"

\* C14: an updateMessageStatus call with status 'delivered' and a user id
\* puts that user id into the message's deliveredTo in the same update.
C14_DeliveredAddsToDeliveredTo ==
    [][\A p \in Procs :
          WritesDelivered(p) =>
              \A i \in 1..Len(msgTbl') :
                  (msgTbl'[i].chatId = procs[p].chatId /\ msgTbl'[i].id = procs[p].msgId)
                      => Includes(msgTbl'[i].deliveredTo, procs[p].userId)]_vars


\* the fields of a message that are fixed when it is made
SameIdentity(a, b) ==
    /\ a.id = b.id /\ a.senderId = b.senderId /\ a.text = b.text
    /\ a.timestamp = b.timestamp

\* every stored row keeps its place, its chat id and its fixed fields
RowsKeepIdentity ==
    /\ Len(msgTbl') >= Len(msgTbl)
    /\ \A i \in 1..Len(msgTbl) :
          /\ SameIdentity(msgTbl[i], msgTbl'[i])
          /\ msgTbl[i].chatId = msgTbl'[i].chatId

\* the store after a step of a call on message m of chat c: no row added,
\* and only rows of that message differ from before
StoreFrame(c, m) ==
    /\ UNCHANGED <<chatsTbl, partTbl>>
    /\ Len(msgTbl') = Len(msgTbl)
    /\ \A i \in 1..Len(msgTbl) :
          /\ (msgTbl[i].chatId # c \/ msgTbl[i].id # m) => msgTbl'[i] = msgTbl[i]
          /\ msgTbl'[i].deliveredTo = msgTbl[i].deliveredTo

\* the view after a step of a call on message m of chat c: the same chats,
\* every other chat and every other message as before, the message itself
\* with its fixed fields, the preview as before or a copy of the message
ViewFrame(c, m) ==
    /\ Len(userChats') = Len(userChats)
    /\ \A i \in 1..Len(userChats) :
          LET old == userChats[i]
              new == userChats'[i]
          IN  /\ old.id # c => new = old
              /\ new.id = old.id /\ new.participants = old.participants
              /\ Len(new.messages) = Len(old.messages)
              /\ \A j \in 1..Len(old.messages) :
                    /\ SameIdentity(old.messages[j], new.messages[j])
                    /\ old.messages[j].id # m => new.messages[j] = old.messages[j]
              /\ \/ new.lastMessage = old.lastMessage
                 \/ /\ old.lastMessage # <<>> /\ new.lastMessage # <<>>
                    /\ old.lastMessage[1].id = m
                    /\ SameIdentity(old.lastMessage[1], new.lastMessage[1])

\* call p of updateMessageStatus takes a step (its start included)
UmsStep(p) ==
    /\ procs'[p] # procs[p]
    /\ \/ procs[p].op = "updateMessageStatus" /\ procs[p].pc # "done"
       \/ procs'[p].op = "updateMessageStatus" /\ procs'[p].pc = "selectLast"

\* C15: no step changes the chat id, sender id, text, timestamp or id of a
\* stored message; a step of updateMessageStatus changes at most status and
\* readBy of the message it names, in the store and in the view, and leaves
\* every other message and every other chat as it is.
C15_UpdateTouchesOnlyStatusAndReadBy ==
    [][/\ RowsKeepIdentity
       /\ \A p \in Procs :
             UmsStep(p) =>
                 /\ StoreFrame(procs'[p].chatId, procs'[p].msgId)
                 /\ ViewFrame(procs'[p].chatId, procs'[p].msgId)]_vars

\* an updateMessageStatus call has returned true while the view holds two
\* chats and the store holds a message it did not name
C15_Witness ==
    \E p \in Procs :
        /\ procs[p].op = "updateMessageStatus" /\ procs[p].pc = "done"
        /\ procs[p].result = "true"
        /\ Len(userChats) >= 2
        /\ \E i \in 1..Len(msgTbl) : msgTbl[i].status # "sent"


\* the three callbacks that report a failure by their return value
Guarded == {"createChat", "sendMessage", "updateMessageStatus"}

FailureValue(op) == IF op = "createChat" THEN "null" ELSE "false"

\* the insert call p is about to make hits a primary key the table has
KeyTaken(p) ==
    \/ procs[p].pc = "insertMsg" /\ \E r \in Range(msgTbl) : r.id = procs[p].msgId
    \/ procs[p].pc = "insertChat" /\ procs[p].chatId \in chatsTbl
    \/ /\ procs[p].pc = "insertParticipant"
       /\ \E r \in Range(partTbl) :
             r.id = ParticipantRow(procs[p].chatId, procs[p].parts[procs[p].idx]).id

\* call p makes a store call, and the store call fails: the table or a
\* column is not there yet, or the key is taken
StoreCallFails(p) ==
    /\ procs[p].op \in Guarded /\ procs[p].pc \in StorePcs
    /\ procs'[p] # procs[p]
    /\ ~Usable(StatementTable(procs[p].pc)) \/ KeyTaken(p)

\* C16: when a store call of createChat, sendMessage or updateMessageStatus
\* fails, the call ends there with its failure value (null for createChat,
\* false for the others), nothing is thrown to the caller, and the chat
\* list of the view is as before the call: the failing step leaves it alone
\* and the only step of a call that changes it is the last step of a call
\* that succeeds.
C16_FailureIsReturnedAndViewKept ==
    [][\A p \in Procs :
          /\ StoreCallFails(p) =>
                /\ procs'[p].pc = "done"
                /\ procs'[p].result = FailureValue(procs[p].op)
                /\ UNCHANGED userChats
          /\ (/\ procs[p].op \in Guarded /\ InFlight(p)
              /\ procs'[p] # procs[p] /\ userChats' # userChats)
                => procs'[p].pc = "done" /\ procs'[p].result \in {"true", "chat"}]_vars

\* a sendMessage call with a text has returned false (its insert failed)
\* while the view shows a chat
C16_Witness ==
    \E p \in Procs :
        /\ procs[p].op = "sendMessage" /\ procs[p].pc = "done"
        /\ procs[p].result = "false" /\ Trim(procs[p].text) # ""
        /\ userChats # <<>>


\* call p writes, and the write changes a stored row
WriteChangesRow(p) ==
    /\ procs[p].op = "updateMessageStatus" /\ procs[p].pc = "update"
    /\ procs'[p].pc = "umsSetState"
    /\ msgTbl' # msgTbl

\* C17: a write of updateMessageStatus changes a message only if the message
\* is the newest message of its chat at the moment of the write, also when a
\* sendMessage on the chat comes between the check and the write.
C17_OnlyLastMessageIsWritten ==
    [][\A p \in Procs :
          WriteChangesRow(p) =>
              \E r \in LastRows(procs[p].chatId) : r.id = procs[p].msgId]_vars


\* the status of the stored rows of message m of chat c
StoredStatuses(c, m) == { r.status : r \in Range(RowsOfMessage(c, m)) }

\* C18: whenever no call is in flight, every message of the view has the
\* status of its stored row.
C18_QuietViewStatusMatchesStore ==
    Quiet =>
        \A i \in 1..Len(userChats) :
            \A j \in 1..Len(userChats[i].messages) :
                StoredStatuses(userChats[i].id, userChats[i].messages[j].id)
                    \subseteq { userChats[i].messages[j].status }


\* C19: in the view, the readBy list of every message holds each user id at
\* most once, after any calls of sendMessage and updateMessageStatus (also
\* repeated 'read' calls of one user, and 'read' by the sender).
C19_ViewReadByHasNoDuplicate ==
    \A i \in 1..Len(userChats) :
        \A j \in 1..Len(userChats[i].messages) :
            \A u \in Users : Count(userChats[i].messages[j].readBy, u) <= 1


\* the view has a chat with id c; the view's chat c has a message with id m
ChatInView(chats, c) == \E i \in 1..Len(chats) : chats[i].id = c
MessageInView(chats, c, m) ==
    \E i \in 1..Len(chats) :
        chats[i].id = c /\ \E j \in 1..Len(chats[i].messages) : chats[i].messages[j].id = m

\* C20: while the current user stays the same, no step takes out of the
\* view a chat that a createChat call of the current user has returned, or
\* a message of the current user that a sendMessage call has accepted; not
\* even the end of a load of the chats that began before the call.
C20_CreatedChatAndSentMessageStay ==
    [][\A p \in Procs :
          (procs[p].pc = "done" /\ currentUser' = currentUser) =>
              /\ (/\ procs[p].op = "createChat" /\ procs[p].result = "chat"
                  /\ procs[p].req = currentUser
                  /\ ChatInView(userChats, procs[p].chatId))
                    => ChatInView(userChats', procs[p].chatId)
              /\ (/\ procs[p].op = "sendMessage" /\ procs[p].result = "true"
                  /\ procs[p].senderId = currentUser
                  /\ MessageInView(userChats, procs[p].chatId, procs[p].msgId))
                    => MessageInView(userChats', procs[p].chatId, procs[p].msgId)]_vars

=============================================================================
